---- MODULE Spec2Model ----
(***************************************************************************)
(* csv_to_player_stats.py: the per-player statistics pipeline main_stats.  *)
(*                                                                         *)
(* A DataFrame is a record [columns |-> set of column names,               *)
(*                          rows    |-> sequence of records].              *)
(* A number is a pair <<n, d>> standing for the ratio n/d in lowest terms; *)
(* <<0, 0>> is NaN and <<1, 0>> is +inf, as float division produces them.  *)
(* Float rounding error is not modelled: arithmetic is exact.              *)
(* The game tables have no empty cells, the two players of a game differ,  *)
(* and optimize_w / calculate_EPR of epr_calculator are kept as the calls  *)
(* made to them.                                                           *)
(***************************************************************************)
EXTENDS Integers, Sequences, FiniteSets, TLC

\* ------------------------------------------------------------------ bounds
MaxGames == 2
NumPlayers == 3

Players == 1..NumPlayers

\* ----------------------------------------------------------------- numbers
RECURSIVE GCD(_, _)
GCD(a, b) == IF b = 0 THEN a ELSE GCD(b, a % b)

NaN == <<0, 0>>
Inf == <<1, 0>>
R(n) == <<n, 1>>
Zero == R(0)

IsNaN(x) == x = NaN
IsFinite(x) == x[2] # 0

\* n/d for d > 0 and n >= 0, in lowest terms
Frac(n, d) == LET g == GCD(n, d) IN <<n \div g, d \div g>>

\* float addition
RAdd(x, y) ==
    IF IsNaN(x) \/ IsNaN(y) THEN NaN
    ELSE IF ~IsFinite(x) \/ ~IsFinite(y) THEN Inf
    ELSE Frac(x[1] * y[2] + y[1] * x[2], x[2] * y[2])

\* float multiplication of finite values
RMul(x, y) == Frac(x[1] * y[1], x[2] * y[2])

\* float division: x/0 is inf, 0/0 is NaN
RDiv(x, y) ==
    IF IsNaN(x) \/ IsNaN(y) THEN NaN
    ELSE IF ~IsFinite(x) THEN (IF IsFinite(y) THEN Inf ELSE NaN)
    ELSE IF ~IsFinite(y) THEN Zero
    ELSE IF y[1] = 0 THEN (IF x[1] = 0 THEN NaN ELSE Inf)
    ELSE Frac(x[1] * y[2], x[2] * y[1])

\* x > y on floats: false whenever a NaN is involved
RGt(x, y) ==
    IF IsNaN(x) \/ IsNaN(y) THEN FALSE
    ELSE IF ~IsFinite(y) THEN FALSE
    ELSE IF ~IsFinite(x) THEN TRUE
    ELSE x[1] * y[2] > y[1] * x[2]

\* Python's max(a, b): b unless a > b ... returns a when b > a is false
PyMax(a, b) == IF RGt(b, a) THEN b ELSE a

\* round(x, 0): to the nearest whole number, halves to the even neighbour
Round0(x) ==
    IF ~IsFinite(x) THEN x
    ELSE LET q == x[1] \div x[2]
             r == x[1] % x[2]
         IN  IF 2 * r < x[2] THEN R(q)
             ELSE IF 2 * r > x[2] THEN R(q + 1)
             ELSE IF q % 2 = 0 THEN R(q) ELSE R(q + 1)

\* --------------------------------------------------------- sequence helpers
RECURSIVE SortedSeq(_)
\* the elements of a finite set of integers in increasing order
SortedSeq(S) ==
    IF S = {} THEN <<>>
    ELSE LET m == CHOOSE x \in S : \A y \in S : x <= y
         IN  <<m>> \o SortedSeq(S \ {m})

RECURSIVE Flatten(_)
Flatten(ss) == IF ss = <<>> THEN <<>> ELSE Head(ss) \o Flatten(Tail(ss))

Range(s) == {s[i] : i \in DOMAIN s}

\* ------------------------------------------------------- DataFrame helpers
Frame(cols, rows) == [columns |-> cols, rows |-> rows]

Keys(t) == {t.rows[i].Player : i \in DOMAIN t.rows}

Matches(t, k) == SelectSeq(t.rows, LAMBDA r : r.Player = k)

NaNRow(cols) == [c \in cols |-> NaN]

\* the rows of one key in a join: every pairing of the left and the right
\* rows with that key; a side without the key contributes NaN columns
JoinKey(l, r, k) ==
    LET lm == Matches(l, k)
        rm == Matches(r, k)
        lrows == IF lm = <<>> THEN <<NaNRow(l.columns \ {"Player"})>> ELSE lm
        rrows == IF rm = <<>> THEN <<NaNRow(r.columns \ {"Player"})>> ELSE rm
    IN  Flatten([i \in DOMAIN lrows |->
                   [j \in DOMAIN rrows |->
                      [Player |-> k] @@ lrows[i] @@ rrows[j]]])

\* DataFrame.fillna(0)
FillNa0(t) ==
    Frame(t.columns,
          [i \in DOMAIN t.rows |->
             [c \in DOMAIN t.rows[i] |->
                IF c # "Player" /\ IsNaN(t.rows[i][c]) THEN Zero
                ELSE t.rows[i][c]]])

\* how='inner' in place of how='outer': only the keys of both sides
MergeOuter_inner(l, r) ==
    LET ks == SortedSeq(Keys(l) \cap Keys(r))
    IN  Frame(l.columns \cup r.columns,
              Flatten([i \in DOMAIN ks |-> JoinKey(l, r, ks[i])]))

\* pd.merge(l, r, on='Player', how='outer'): union of keys, sorted
MergeOuter(l, r) ==
    LET ks == SortedSeq(Keys(l) \cup Keys(r))
    IN  Frame(l.columns \cup r.columns,
              Flatten([i \in DOMAIN ks |-> JoinKey(l, r, ks[i])]))

\* pd.merge(l, r, on='Player', how='left'): the left rows in their order
MergeLeft(l, r) ==
    Frame(l.columns \cup r.columns,
          Flatten([i \in DOMAIN l.rows |->
                     LET k == l.rows[i].Player
                         rm == Matches(r, k)
                         rrows == IF rm = <<>>
                                  THEN <<NaNRow(r.columns \ {"Player"})>>
                                  ELSE rm
                     IN  [j \in DOMAIN rrows |-> l.rows[i] @@ rrows[j]]]))

\* pd.merge(l, r, on='Player'): keys of both sides, in the left order
MergeInner(l, r) ==
    Frame(l.columns \cup r.columns,
          Flatten([i \in DOMAIN l.rows |->
                     LET rm == Matches(r, l.rows[i].Player)
                     IN  [j \in DOMAIN rm |-> l.rows[i] @@ rm[j]]]))

\* df[cols]
Project(t, cols) ==
    Frame(cols, [i \in DOMAIN t.rows |-> [c \in cols |-> t.rows[i][c]]])

\* df[new] = vals, one value for every row
WithColumn(t, new, vals) ==
    Frame(t.columns \cup {new},
          [i \in DOMAIN t.rows |->
             [c \in DOMAIN t.rows[i] \cup {new} |->
                IF c = new THEN vals[i] ELSE t.rows[i][c]]])

\* df[new] = df[a] + df[b]
ColumnSum(t, new, a, b) ==
    WithColumn(t, new, [i \in DOMAIN t.rows |-> RAdd(t.rows[i][a], t.rows[i][b])])

\* df[new] = df[a] / df[b]
ColumnRatio(t, new, a, b) ==
    WithColumn(t, new, [i \in DOMAIN t.rows |-> RDiv(t.rows[i][a], t.rows[i][b])])

\* a cell of a row; a column the frame does not have reads as NaN
Cell(r, c) == IF c \in DOMAIN r THEN r[c] ELSE NaN

\* the values of value_col in the rows whose group_col is k, in row order
GroupValues(t, group_col, k, value_col) ==
    LET sel == SelectSeq(t.rows, LAMBDA r : r[group_col] = k)
    IN  [i \in DOMAIN sel |-> Cell(sel[i], value_col)]

\* the distinct values of a key column; groupby emits them sorted
GroupKeys(t, group_col) == {t.rows[i][group_col] : i \in DOMAIN t.rows}

RECURSIVE SeqSum(_)
\* Series.sum(): NaN entries are skipped
SeqSum(s) ==
    IF s = <<>> THEN Zero
    ELSE IF IsNaN(Head(s)) THEN SeqSum(Tail(s))
    ELSE RAdd(Head(s), SeqSum(Tail(s)))

\* Series.count(): the number of entries that are not NaN
SeqCount(s) == Len(SelectSeq(s, LAMBDA v : ~IsNaN(v)))

\* Series.mean(): NaN for a group without values
SeqMean(s) == RDiv(SeqSum(s), R(SeqCount(s)))

RECURSIVE InsertAsc(_, _)
InsertAsc(v, s) ==
    IF s = <<>> THEN <<v>>
    ELSE IF RGt(Head(s), v) THEN <<v>> \o s
    ELSE <<Head(s)>> \o InsertAsc(v, Tail(s))

RECURSIVE SortAsc(_)
SortAsc(s) == IF s = <<>> THEN <<>> ELSE InsertAsc(Head(s), SortAsc(Tail(s)))

\* Series.median() over the values that are not NaN
SeqMedian(s) ==
    LET v == SortAsc(SelectSeq(s, LAMBDA x : ~IsNaN(x)))
        n == Len(v)
    IN  IF n = 0 THEN NaN
        ELSE IF n % 2 = 1 THEN v[(n + 1) \div 2]
        ELSE RDiv(RAdd(v[n \div 2], v[n \div 2 + 1]), R(2))

\* Series.var(): sample variance (ddof = 1), NaN below two observations
SeqVar(s) ==
    LET v == SelectSeq(s, LAMBDA x : ~IsNaN(x))
        n == Len(v)
        sq == [i \in DOMAIN v |-> RMul(v[i], v[i])]
        sm == SeqSum(v)
        s2 == SeqSum(sq)
    IN  IF n < 2 THEN NaN
        ELSE Frac(n * s2[1] * sm[2] * sm[2] - sm[1] * sm[1] * s2[2],
                  s2[2] * sm[2] * sm[2] * n * (n - 1))

\* square root; an irrational result <<n, d, 2>> stands for sqrt(n/d)
Sqrt(x) ==
    IF IsNaN(x) THEN NaN
    ELSE IF x = Zero THEN Zero
    ELSE <<x[1], x[2], 2>>

\* Series.std(): the square root of var()
SeqStd(s) == Sqrt(SeqVar(s))

\* ------------------------------------------------------------ the functions
\* only a missing group key raises; a missing value column reads as NaN
KeyError_keysonly(t, cols) ==
    ~((cols \cap {"White", "Black", "Player"}) \subseteq t.columns)

\* df[col] raises KeyError when a column is missing
KeyError(t, cols) == ~(cols \subseteq t.columns)

\* groupby(group_col)[value_col].sum().reset_index(), the sum named out_col
group_sum(t, group_col, value_col, out_col) ==
    LET ks == SortedSeq(GroupKeys(t, group_col))
    IN  Frame({"Player", out_col},
              [i \in DOMAIN ks |->
                 [c \in {"Player", out_col} |->
                    IF c = "Player" THEN ks[i]
                    ELSE SeqSum(GroupValues(t, group_col, ks[i], value_col))]])

calculate_sum(t, group_col, value_col, prefix) ==
    group_sum(t, group_col, value_col, prefix \o "_sum")

\* the distinct values of a column in order of first appearance
RECURSIVE FirstSeen(_, _)
FirstSeen(s, seen) ==
    IF s = <<>> THEN <<>>
    ELSE IF Head(s) \in seen THEN FirstSeen(Tail(s), seen)
    ELSE <<Head(s)>> \o FirstSeen(Tail(s), seen \cup {Head(s)})

RECURSIVE InsertByCount(_, _)
\* e goes before the first entry whose count is not larger than its own
InsertByCount(e, s) ==
    IF s = <<>> THEN <<e>>
    ELSE IF s[1][2] > e[2] THEN <<Head(s)>> \o InsertByCount(e, Tail(s))
    ELSE <<e>> \o s

RECURSIVE SortByCount(_)
\* <<key, count>> pairs by count, descending, equal counts in their order
SortByCount(s) ==
    IF s = <<>> THEN <<>> ELSE InsertByCount(Head(s), SortByCount(Tail(s)))

\* Series.value_counts().reset_index(): most frequent first
calculate_games(t, player_col) ==
    LET col == [i \in DOMAIN t.rows |-> t.rows[i][player_col]]
        ks == FirstSeen(col, {})
        cnt == SortByCount([i \in DOMAIN ks |->
                  <<ks[i], Len(SelectSeq(col, LAMBDA v : v = ks[i]))>>])
    IN  Frame({"Player", player_col \o "_games"},
              [i \in DOMAIN cnt |->
                 [c \in {"Player", player_col \o "_games"} |->
                    IF c = "Player" THEN cnt[i][1] ELSE R(cnt[i][2])]])

\* the merge of the two counts as an inner join
calculate_total_games_inner(white_games, black_games) ==
    ColumnSum(FillNa0(MergeInner(white_games, black_games)),
              "total_game_count", "White_games", "Black_games")

\* the merge of the two counts without fillna(0)
calculate_total_games_nofill(white_games, black_games) ==
    ColumnSum(MergeOuter(white_games, black_games),
              "total_game_count", "White_games", "Black_games")

calculate_total_games(white_games, black_games) ==
    ColumnSum(FillNa0(MergeOuter(white_games, black_games)),
              "total_game_count", "White_games", "Black_games")

calculate_total_moves(t) ==
    LET white_moves == calculate_sum(t, "White", "white_move_number", "white_move")
        black_moves == calculate_sum(t, "Black", "black_move_number", "black_move")
        total_moves == ColumnSum(FillNa0(MergeOuter(white_moves, black_moves)),
                                 "total_moves", "white_move_sum", "black_move_sum")
    IN  Project(total_moves, {"Player", "total_moves"})

calculate_statistics(t, value_col) ==
    LET ks == SortedSeq(GroupKeys(t, "Player"))
        cols == {"Player", value_col \o "_median", value_col \o "_var",
                 value_col \o "_std"}
    IN  Frame(cols,
              [i \in DOMAIN ks |->
                 LET v == GroupValues(t, "Player", ks[i], value_col)
                 IN  [c \in cols |->
                        IF c = "Player" THEN ks[i]
                        ELSE IF c = value_col \o "_median" THEN SeqMedian(v)
                        ELSE IF c = value_col \o "_var" THEN SeqVar(v)
                        ELSE SeqStd(v)]])

\* the merge of the two sums without fillna(0)
calculate_opponent_elo_sums_nofill(t) ==
    LET white_opponent_elo_sum ==
            group_sum(t, "White", "BlackElo", "sum_opponent_elo_x")
        black_opponent_elo_sum ==
            group_sum(t, "Black", "WhiteElo", "sum_opponent_elo_y")
        m == MergeOuter(white_opponent_elo_sum, black_opponent_elo_sum)
    IN  Project(ColumnSum(m, "sum_opponent_elo", "sum_opponent_elo_x", "sum_opponent_elo_y"),
                {"Player", "sum_opponent_elo"})

calculate_opponent_elo_sums(t) ==
    LET white_opponent_elo_sum ==
            group_sum(t, "White", "BlackElo", "sum_opponent_elo_x")
        black_opponent_elo_sum ==
            group_sum(t, "Black", "WhiteElo", "sum_opponent_elo_y")
        m == FillNa0(MergeOuter(white_opponent_elo_sum, black_opponent_elo_sum))
    IN  Project(ColumnSum(m, "sum_opponent_elo", "sum_opponent_elo_x", "sum_opponent_elo_y"),
                {"Player", "sum_opponent_elo"})

calculate_avg_opponent_elo(opponent_elo_sums, total_games) ==
    LET merged == MergeInner(opponent_elo_sums,
                             Project(total_games, {"Player", "total_game_count"}))
    IN  Project(ColumnRatio(merged, "avg_opponent_elo", "sum_opponent_elo", "total_game_count"),
                {"Player", "avg_opponent_elo"})

\* groupby(group_col)[value_col].mean()
group_mean(t, group_col, value_col, out_col) ==
    LET ks == SortedSeq(GroupKeys(t, group_col))
    IN  Frame({"Player", out_col},
              [i \in DOMAIN ks |->
                 [c \in {"Player", out_col} |->
                    IF c = "Player" THEN ks[i]
                    ELSE SeqMean(GroupValues(t, group_col, ks[i], value_col))]])

\* the lambda with 'or' in place of 'and'
elo_of_row_or(row) ==
    Round0(IF RGt(row.avg_elo_white, Zero) \/ RGt(row.avg_elo_black, Zero)
           THEN RDiv(RAdd(row.avg_elo_white, row.avg_elo_black), R(2))
           ELSE PyMax(row.avg_elo_white, row.avg_elo_black))

\* the lambda of calculate_average_elo
elo_of_row(row) ==
    Round0(IF RGt(row.avg_elo_white, Zero) /\ RGt(row.avg_elo_black, Zero)
           THEN RDiv(RAdd(row.avg_elo_white, row.avg_elo_black), R(2))
           ELSE PyMax(row.avg_elo_white, row.avg_elo_black))

calculate_average_elo(t) ==
    LET white_elo_avg == group_mean(t, "White", "WhiteElo", "avg_elo_white")
        black_elo_avg == group_mean(t, "Black", "BlackElo", "avg_elo_black")
        elo_avg == FillNa0(MergeOuter(white_elo_avg, black_elo_avg))
    IN  Project(WithColumn(elo_avg, "Elo",
                           [i \in DOMAIN elo_avg.rows |-> elo_of_row(elo_avg.rows[i])]),
                {"Player", "Elo"})

\* epr_calculator is a separate module: its results are kept as the calls
optimize_w(points, games, threshold_prob) ==
    [fn |-> "optimize_w", points |-> points, games |-> games,
     threshold_prob |-> threshold_prob]

calculate_EPR(w_star, avg_opponent_elo) ==
    [fn |-> "calculate_EPR", w_star |-> w_star,
     avg_opponent_elo |-> avg_opponent_elo]

calculate_tpr(player_stats) ==
    LET threshold_prob == Frac(3, 4)
        with_w == WithColumn(player_stats, "w_star",
                     [i \in DOMAIN player_stats.rows |->
                        optimize_w(player_stats.rows[i].Points,
                                   player_stats.rows[i].total_game_count,
                                   threshold_prob)])
    IN  WithColumn(with_w, "TPR",
                   [i \in DOMAIN with_w.rows |->
                      [fn |-> "round",
                       x |-> calculate_EPR(with_w.rows[i].w_star,
                                           with_w.rows[i].avg_opponent_elo)]])

RECURSIVE merge_dataframes(_)
\* left to right: merged = merge(merged, df, how='outer').fillna(0)
merge_dataframes(dfs) ==
    IF Len(dfs) = 1 THEN dfs[1]
    ELSE LET n == Len(dfs)
         IN  FillNa0(MergeOuter(merge_dataframes(SubSeq(dfs, 1, n - 1)), dfs[n]))

\* the averages over the games as White only
calculate_averages_white(player_stats) ==
    LET a1 == ColumnRatio(player_stats, "avg_gi", "total_gi_sum", "White_games")
        a2 == ColumnRatio(a1, "avg_gi_raw", "total_gi_raw_sum", "White_games")
        a3 == ColumnRatio(a2, "avg_gpl", "total_gpl_sum", "White_games")
    IN  ColumnRatio(a3, "avg_acpl", "total_acpl_sum", "White_games")

calculate_averages(player_stats) ==
    LET a1 == ColumnRatio(player_stats, "avg_gi", "total_gi_sum", "total_game_count")
        a2 == ColumnRatio(a1, "avg_gi_raw", "total_gi_raw_sum", "total_game_count")
        a3 == ColumnRatio(a2, "avg_gpl", "total_gpl_sum", "total_game_count")
    IN  ColumnRatio(a3, "avg_acpl", "total_acpl_sum", "total_game_count")

\* ------------------------------------------------------------- the inputs
RequiredColumns ==
    {"White", "Black", "WhiteElo", "BlackElo", "WhiteResult", "BlackResult",
     "white_move_number", "black_move_number", "white_gi", "black_gi",
     "white_gi_raw", "black_gi_raw", "white_gpl", "black_gpl",
     "white_acpl", "black_acpl"}

\* the numeric columns of a game row, as they occur together in one game
GameValues ==
    { [WhiteElo |-> R(0), BlackElo |-> R(1401),
       WhiteResult |-> R(0), BlackResult |-> R(1),
       white_move_number |-> R(25), black_move_number |-> R(24),
       white_gi |-> R(60), black_gi |-> R(60),
       white_gi_raw |-> R(5), black_gi_raw |-> R(5),
       white_gpl |-> R(7), black_gpl |-> R(1),
       white_acpl |-> R(50), black_acpl |-> R(10)],
      [WhiteElo |-> R(1500), BlackElo |-> R(1400),
       WhiteResult |-> Frac(1, 2), BlackResult |-> Frac(1, 2),
       white_move_number |-> R(40), black_move_number |-> R(41),
       white_gi |-> R(80), black_gi |-> R(75),
       white_gi_raw |-> R(8), black_gi_raw |-> R(6),
       white_gpl |-> R(3), black_gpl |-> R(5),
       white_acpl |-> R(20), black_acpl |-> R(35)] }

\* a game between two different players
GameRows ==
    { [White |-> w, Black |-> b] @@ v :
        <<w, b>> \in {pr \in Players \X Players : pr[1] # pr[2]},
        v \in GameValues }

\* every game table of at most n games
TablesUpTo(n) == UNION { [1..k -> GameRows] : k \in 0..n }

\* the table without one column
DropColumn(t, col) ==
    Project(t, t.columns \ {col})

\* CSV files with the whole schema, and short ones that lack one column
CsvFiles ==
    { Frame(RequiredColumns, rows) : rows \in TablesUpTo(MaxGames) }
    \cup
    { DropColumn(Frame(RequiredColumns, rows), col) :
        rows \in TablesUpTo(1), col \in RequiredColumns }

\* -------------------------------------------------------------- main_stats
VARIABLES
    pathExists,       \* os.path.exists(csv_all_games_path)
    csv,              \* the content of the file at csv_all_games_path
    pc,               \* the position in main_stats
    reported,         \* "File not found" was printed
    df,               \* the loaded game table
    sums,             \* the ten per-colour sum tables
    total_games,
    total_moves,
    stats,            \* gi_stats, gi_raw_stats, gpl_stats, acpl_stats
    player_stats,
    avg_opponent_elo,
    dirCreated,       \* os.makedirs(player_stats_output_dir) was called
    written,          \* player_stats.csv was written
    output            \* the content of player_stats.csv

vars == <<pathExists, csv, pc, reported, df, sums, total_games, total_moves,
          stats, player_stats, avg_opponent_elo, dirCreated, written, output>>

NoFrame == Frame({}, <<>>)

Init ==
    /\ \/ pathExists = FALSE /\ csv = NoFrame
       \/ pathExists = TRUE /\ csv \in CsvFiles
    /\ pc = "start"
    /\ reported = FALSE
    /\ df = NoFrame
    /\ sums = <<>>
    /\ total_games = NoFrame
    /\ total_moves = NoFrame
    /\ stats = <<>>
    /\ player_stats = NoFrame
    /\ avg_opponent_elo = NoFrame
    /\ dirCreated = FALSE
    /\ written = FALSE
    /\ output = NoFrame

\* an exception leaves main_stats: nothing after the raising line runs
Raise ==
    /\ pc' = "raised"
    /\ UNCHANGED <<pathExists, csv, reported, df, sums, total_games,
                   total_moves, stats, player_stats, avg_opponent_elo,
                   dirCreated, written, output>>

\* the report without the return: read_csv raises FileNotFoundError
NotFound_noreturn ==
    /\ pc = "start"
    /\ ~pathExists
    /\ reported' = TRUE
    /\ pc' = "raised"
    /\ UNCHANGED <<pathExists, csv, df, sums, total_games, total_moves, stats,
                   player_stats, avg_opponent_elo, dirCreated, written, output>>

\* lines 113-115
NotFound ==
    /\ pc = "start"
    /\ ~pathExists
    /\ reported' = TRUE
    /\ pc' = "returned"
    /\ UNCHANGED <<pathExists, csv, df, sums, total_games, total_moves, stats,
                   player_stats, avg_opponent_elo, dirCreated, written, output>>

\* line 116
ReadCsv ==
    /\ pc = "start"
    /\ pathExists
    /\ df' = csv
    /\ pc' = "sums"
    /\ UNCHANGED <<pathExists, csv, reported, sums, total_games, total_moves,
                   stats, player_stats, avg_opponent_elo, dirCreated, written,
                   output>>

SumColumns ==
    {"White", "Black", "white_gi", "black_gi", "white_gi_raw", "black_gi_raw",
     "white_gpl", "black_gpl", "white_acpl", "black_acpl",
     "WhiteResult", "BlackResult"}

\* lines 120-130
CalcSums ==
    /\ pc = "sums"
    /\ IF KeyError(df, SumColumns) THEN Raise
       ELSE /\ sums' = << calculate_sum(df, "White", "white_gi", "white_gi"),
                          calculate_sum(df, "Black", "black_gi", "black_gi"),
                          calculate_sum(df, "White", "white_gi_raw", "white_gi_raw"),
                          calculate_sum(df, "Black", "black_gi_raw", "black_gi_raw"),
                          calculate_sum(df, "White", "white_gpl", "white_gpl"),
                          calculate_sum(df, "Black", "black_gpl", "black_gpl"),
                          calculate_sum(df, "White", "white_acpl", "white_acpl"),
                          calculate_sum(df, "Black", "black_acpl", "black_acpl"),
                          calculate_sum(df, "White", "WhiteResult", "white_result"),
                          calculate_sum(df, "Black", "BlackResult", "black_result") >>
            /\ pc' = "games"
            /\ UNCHANGED <<pathExists, csv, reported, df, total_games,
                           total_moves, stats, player_stats, avg_opponent_elo,
                           dirCreated, written, output>>

\* lines 133-136
CalcGames ==
    /\ pc = "games"
    /\ IF KeyError(df, {"White", "Black", "white_move_number", "black_move_number"})
       THEN Raise
       ELSE /\ total_games' = calculate_total_games(calculate_games(df, "White"),
                                                    calculate_games(df, "Black"))
            /\ total_moves' = calculate_total_moves(df)
            /\ pc' = "stats"
            /\ UNCHANGED <<pathExists, csv, reported, df, sums, stats,
                           player_stats, avg_opponent_elo, dirCreated, written,
                           output>>

\* one colour's side of the games as rows of Player, gi, gi_raw, gpl, acpl
SideRows(t, side, prefix) ==
    [i \in DOMAIN t.rows |->
       [Player |-> t.rows[i][side],
        gi |-> Cell(t.rows[i], prefix \o "_gi"),
        gi_raw |-> Cell(t.rows[i], prefix \o "_gi_raw"),
        gpl |-> Cell(t.rows[i], prefix \o "_gpl"),
        acpl |-> Cell(t.rows[i], prefix \o "_acpl")]]

\* lines 138-141: the White sides followed by the Black sides
combined_df(t) ==
    Frame({"Player", "gi", "gi_raw", "gpl", "acpl"},
          SideRows(t, "White", "white") \o SideRows(t, "Black", "black"))

\* lines 138-146
CalcStats ==
    /\ pc = "stats"
    /\ IF KeyError(df, {"White", "Black", "white_gi", "black_gi", "white_gi_raw",
                        "black_gi_raw", "white_gpl", "black_gpl", "white_acpl",
                        "black_acpl"})
       THEN Raise
       ELSE /\ stats' = << calculate_statistics(combined_df(df), "gi"),
                           calculate_statistics(combined_df(df), "gi_raw"),
                           calculate_statistics(combined_df(df), "gpl"),
                           calculate_statistics(combined_df(df), "acpl") >>
            /\ pc' = "merge"
            /\ UNCHANGED <<pathExists, csv, reported, df, sums, total_games,
                           total_moves, player_stats, avg_opponent_elo,
                           dirCreated, written, output>>

\* lines 150-155
total_sums ==
    LET m == merge_dataframes(sums \o <<total_games, total_moves>>)
        t1 == ColumnSum(m, "total_gi_sum", "white_gi_sum", "black_gi_sum")
        t2 == ColumnSum(t1, "total_gi_raw_sum", "white_gi_raw_sum", "black_gi_raw_sum")
        t3 == ColumnSum(t2, "total_gpl_sum", "white_gpl_sum", "black_gpl_sum")
        t4 == ColumnSum(t3, "total_acpl_sum", "white_acpl_sum", "black_acpl_sum")
    IN  ColumnSum(t4, "Points", "white_result_sum", "black_result_sum")

\* lines 149-157
Merge ==
    /\ pc = "merge"
    /\ player_stats' = merge_dataframes(<<total_sums>> \o stats)
    /\ pc' = "averages"
    /\ UNCHANGED <<pathExists, csv, reported, df, sums, total_games,
                   total_moves, stats, avg_opponent_elo, dirCreated, written,
                   output>>

\* line 160
Averages ==
    /\ pc = "averages"
    /\ player_stats' = calculate_averages(player_stats)
    /\ pc' = "opponent_elo"
    /\ UNCHANGED <<pathExists, csv, reported, df, sums, total_games,
                   total_moves, stats, avg_opponent_elo, dirCreated, written,
                   output>>

\* lines 163-167
OpponentElo ==
    /\ pc = "opponent_elo"
    /\ IF KeyError(df, {"White", "Black", "WhiteElo", "BlackElo"}) THEN Raise
       ELSE /\ avg_opponent_elo' =
                   calculate_avg_opponent_elo(calculate_opponent_elo_sums(df),
                                              total_games)
            /\ player_stats' = MergeLeft(player_stats, avg_opponent_elo')
            /\ pc' = "tpr"
            /\ UNCHANGED <<pathExists, csv, reported, df, sums, total_games,
                           total_moves, stats, dirCreated, written, output>>

\* line 170; assigning the result of apply on a frame without rows to one
\* column raises ValueError or not, depending on the pandas version
Tpr ==
    /\ pc = "tpr"
    /\ \/ /\ player_stats.rows = <<>>
          /\ Raise
       \/ /\ player_stats' = calculate_tpr(player_stats)
          /\ pc' = "elo"
          /\ UNCHANGED <<pathExists, csv, reported, df, sums, total_games,
                         total_moves, stats, avg_opponent_elo, dirCreated,
                         written, output>>

\* lines 173-176
AverageElo ==
    /\ pc = "elo"
    /\ IF KeyError(df, {"White", "Black", "WhiteElo", "BlackElo"}) THEN Raise
       ELSE /\ player_stats' = MergeLeft(player_stats, calculate_average_elo(df))
            /\ pc' = "select"
            /\ UNCHANGED <<pathExists, csv, reported, df, sums, total_games,
                           total_moves, stats, avg_opponent_elo, dirCreated,
                           written, output>>

columns_to_include ==
    <<"Player", "avg_gi", "avg_gpl", "avg_acpl", "total_game_count", "Points",
      "Elo", "TPR", "total_moves", "White_games", "Black_games", "gi_median",
      "gpl_median", "acpl_median", "gi_std", "gpl_std", "acpl_std",
      "avg_gi_raw", "white_gpl_sum", "black_gpl_sum", "white_acpl_sum",
      "black_acpl_sum", "white_result_sum", "black_result_sum",
      "total_gpl_sum", "gi_var", "gi_raw_median", "gi_raw_var", "gi_raw_std",
      "gpl_var", "acpl_var">>

\* lines 179-180
Select ==
    /\ pc = "select"
    /\ IF KeyError(player_stats, Range(columns_to_include)) THEN Raise
       ELSE /\ player_stats' = Project(player_stats, Range(columns_to_include))
            /\ pc' = "mkdir"
            /\ UNCHANGED <<pathExists, csv, reported, df, sums, total_games,
                           total_moves, stats, avg_opponent_elo, dirCreated,
                           written, output>>

\* lines 183-184: the directory is made unless it is there already
EnsureDir ==
    /\ pc = "mkdir"
    /\ \E dirExists \in BOOLEAN : dirCreated' = ~dirExists
    /\ pc' = "sort"
    /\ UNCHANGED <<pathExists, csv, reported, df, sums, total_games,
                   total_moves, stats, player_stats, avg_opponent_elo, written,
                   output>>

\* ascending order
MayPrecede_asc(a, b) == IF IsNaN(a) THEN IsNaN(b) ELSE ~RGt(a, b)

\* sort_values(ascending=False): row a may stand before row b; NaN goes last
MayPrecede(a, b) == IF IsNaN(a) THEN IsNaN(b) ELSE ~RGt(b, a)

\* sort_values(by, ascending=False) with the default kind='quicksort', which
\* is not stable: every ordering of the rows that is sorted is an outcome
sort_values(t, by) ==
    { Frame(t.columns, [i \in DOMAIN t.rows |-> t.rows[p[i]]]) :
        p \in { q \in Permutations(DOMAIN t.rows) :
                  \A i, j \in DOMAIN t.rows :
                     i < j => MayPrecede(t.rows[q[i]][by], t.rows[q[j]][by]) } }

\* lines 190-191
SortAndSave ==
    /\ pc = "sort"
    /\ player_stats' \in sort_values(player_stats, "avg_gi")
    /\ output' = player_stats'
    /\ written' = TRUE
    /\ pc' = "returned"
    /\ UNCHANGED <<pathExists, csv, reported, df, sums, total_games,
                   total_moves, stats, avg_opponent_elo, dirCreated>>

Next ==
    \/ NotFound
    \/ ReadCsv
    \/ CalcSums
    \/ CalcGames
    \/ CalcStats
    \/ Merge
    \/ Averages
    \/ OpponentElo
    \/ Tpr
    \/ AverageElo
    \/ Select
    \/ EnsureDir
    \/ SortAndSave

Spec == Init /\ [][Next]_vars

\* ------------------------------------------------------------ properties
\* The expected values below are computed from the game rows directly.

WhiteGames(p) == {i \in DOMAIN df.rows : df.rows[i].White = p}
BlackGames(p) == {i \in DOMAIN df.rows : df.rows[i].Black = p}
InputPlayers == {df.rows[i].White : i \in DOMAIN df.rows}
                \cup {df.rows[i].Black : i \in DOMAIN df.rows}
GameCount(p) == Cardinality(WhiteGames(p)) + Cardinality(BlackGames(p))

RECURSIVE ColSum(_, _)
\* the sum of a column over a set of game rows
ColSum(S, col) ==
    IF S = {} THEN Zero
    ELSE LET i == CHOOSE j \in S : TRUE
         IN  RAdd(df.rows[i][col], ColSum(S \ {i}, col))

\* the player's total of a metric over the games of both colours
MetricTotal(p, metric) ==
    RAdd(ColSum(WhiteGames(p), "white_" \o metric),
         ColSum(BlackGames(p), "black_" \o metric))

\* x is the ratio total / n, by cross-multiplication
IsRatio(x, total, n) ==
    /\ Len(x) = 2
    /\ x[2] > 0
    /\ x[1] * total[2] * n = total[1] * x[2]

OneColourOnly(p) ==
    (WhiteGames(p) = {}) # (BlackGames(p) = {})
BothColours(p) == WhiteGames(p) # {} /\ BlackGames(p) # {}

\* C1: the players of the written table are exactly the values of the White
\* and Black columns, each on one row only.
C1_UnionCompleteness ==
    written =>
       /\ {output.rows[i].Player : i \in DOMAIN output.rows} = InputPlayers
       /\ \A i, j \in DOMAIN output.rows :
             output.rows[i].Player = output.rows[j].Player => i = j

C1_Witness ==
    /\ written
    /\ \E p, q, r \in InputPlayers :
          /\ WhiteGames(p) # {} /\ BlackGames(p) = {}
          /\ WhiteGames(q) = {} /\ BlackGames(q) # {}
          /\ BothColours(r)

\* C2: total_game_count = White_games + Black_games, each the number of game
\* rows naming the player in that column, 0 for a colour never played.
C2_GameCountIdentity ==
    written =>
       \A i \in DOMAIN output.rows :
          LET r == output.rows[i] IN
          /\ r.White_games = R(Cardinality(WhiteGames(r.Player)))
          /\ r.Black_games = R(Cardinality(BlackGames(r.Player)))
          /\ r.total_game_count = R(GameCount(r.Player))

C2_Witness ==
    /\ written
    /\ \E i, j \in DOMAIN output.rows :
          /\ output.rows[i].Black_games = Zero
          /\ output.rows[i].total_game_count = R(1)
          /\ output.rows[j].White_games = R(1)
          /\ output.rows[j].Black_games = R(1)

AverageHolds(r, avg_col, metric) ==
    IsRatio(r[avg_col], MetricTotal(r.Player, metric), GameCount(r.Player))

\* C3: avg_gi = total_gi_sum / total_game_count with total_gi_sum the sum of
\* the player's gi over the games of both colours; the same for gi_raw, gpl
\* and acpl.
C3_AverageIdentity ==
    /\ pc \in {"opponent_elo", "tpr", "elo", "select"} =>
          \A i \in DOMAIN player_stats.rows :
             LET r == player_stats.rows[i] IN
             /\ r.total_gi_sum = MetricTotal(r.Player, "gi")
             /\ r.total_gi_raw_sum = MetricTotal(r.Player, "gi_raw")
             /\ r.total_gpl_sum = MetricTotal(r.Player, "gpl")
             /\ r.total_acpl_sum = MetricTotal(r.Player, "acpl")
             /\ r.total_gi_sum = RAdd(r.white_gi_sum, r.black_gi_sum)
             /\ AverageHolds(r, "avg_gi", "gi")
             /\ AverageHolds(r, "avg_gi_raw", "gi_raw")
             /\ AverageHolds(r, "avg_gpl", "gpl")
             /\ AverageHolds(r, "avg_acpl", "acpl")
    /\ written =>
          \A i \in DOMAIN output.rows :
             LET r == output.rows[i] IN
             /\ AverageHolds(r, "avg_gi", "gi")
             /\ AverageHolds(r, "avg_gi_raw", "gi_raw")
             /\ AverageHolds(r, "avg_gpl", "gpl")
             /\ AverageHolds(r, "avg_acpl", "acpl")

\* gi 80 as White in one game and 75 as Black in another: avg_gi 77.5
C3_Witness ==
    /\ written
    /\ \E i \in DOMAIN output.rows :
          LET p == output.rows[i].Player IN
          /\ output.rows[i].avg_gi = <<155, 2>>
          /\ \E g \in WhiteGames(p) : df.rows[g].white_gi = R(80)
          /\ \E g \in BlackGames(p) : df.rows[g].black_gi = R(75)

AvgEloWhite(p) ==
    RDiv(ColSum(WhiteGames(p), "WhiteElo"), R(Cardinality(WhiteGames(p))))
AvgEloBlack(p) ==
    RDiv(ColSum(BlackGames(p), "BlackElo"), R(Cardinality(BlackGames(p))))
MeanOfBoth(p) == RDiv(RAdd(AvgEloWhite(p), AvgEloBlack(p)), R(2))
LargerOfBoth(p) ==
    IF RGt(AvgEloBlack(p), AvgEloWhite(p)) THEN AvgEloBlack(p)
    ELSE AvgEloWhite(p)

SingleColourElo(r) ==
    LET p == r.Player IN
    /\ (WhiteGames(p) # {} /\ BlackGames(p) = {}) =>
          r.Elo = Round0(AvgEloWhite(p))
    /\ (WhiteGames(p) = {} /\ BlackGames(p) # {}) =>
          r.Elo = Round0(AvgEloBlack(p))

\* C4 as stated: a player of one colour only has the rounded average of that
\* colour, and every player of both colours has the rounded mean of the two
\* averages.
C4_Original ==
    written =>
       \A i \in DOMAIN output.rows :
          LET r == output.rows[i] IN
          /\ SingleColourElo(r)
          /\ BothColours(r.Player) => r.Elo = Round0(MeanOfBoth(r.Player))

\* C4: a player of one colour only has the rounded average of that colour; a
\* player of both colours has the rounded mean of the two averages when both
\* are above 0, and the rounded larger average otherwise.
C4_EloRule ==
    written =>
       \A i \in DOMAIN output.rows :
          LET r == output.rows[i]
              p == r.Player
          IN
          /\ SingleColourElo(r)
          /\ BothColours(p) =>
                r.Elo = IF RGt(AvgEloWhite(p), Zero) /\ RGt(AvgEloBlack(p), Zero)
                        THEN Round0(MeanOfBoth(p))
                        ELSE Round0(LargerOfBoth(p))

C4_Witness ==
    /\ written
    /\ \E i, j \in DOMAIN output.rows :
          /\ BothColours(output.rows[i].Player)
          /\ AvgEloWhite(output.rows[i].Player) = Zero
          /\ output.rows[i].Elo = R(1400)
          /\ BothColours(output.rows[j].Player)
          /\ RGt(AvgEloWhite(output.rows[j].Player), Zero)
          /\ RGt(AvgEloBlack(output.rows[j].Player), Zero)

NonIncreasing(rows) ==
    \A i, j \in DOMAIN rows :
       i < j => /\ Len(rows[i].avg_gi) = 2
                /\ rows[i].avg_gi[2] > 0
                /\ rows[j].avg_gi[2] > 0
                /\ rows[i].avg_gi[1] * rows[j].avg_gi[2]
                      >= rows[j].avg_gi[1] * rows[i].avg_gi[2]

RECURSIVE StableInsertDesc(_, _)
\* row e, which stood before all of s, goes before the first row of s whose
\* avg_gi is not larger than its own
StableInsertDesc(e, s) ==
    IF s = <<>> THEN <<e>>
    ELSE IF RGt(Head(s).avg_gi, e.avg_gi)
         THEN <<Head(s)>> \o StableInsertDesc(e, Tail(s))
         ELSE <<e>> \o s

RECURSIVE StableSortDesc(_)
StableSortDesc(s) ==
    IF s = <<>> THEN <<>>
    ELSE StableInsertDesc(Head(s), StableSortDesc(Tail(s)))

\* C5 as stated: the written rows are non-increasing in avg_gi and rows of
\* equal avg_gi keep the order they had before the sort.
C5_Original ==
    [][pc = "sort" => output'.rows = StableSortDesc(player_stats.rows)]_vars

\* C5: the written rows are the rows before the sort, in an order that is
\* non-increasing in avg_gi.
C5_SortOrder ==
    [][pc = "sort" =>
          /\ NonIncreasing(output'.rows)
          /\ Len(output'.rows) = Len(player_stats.rows)
          /\ \A i \in DOMAIN player_stats.rows :
                \E j \in DOMAIN output'.rows :
                   output'.rows[j] = player_stats.rows[i]]_vars

C5_Witness ==
    /\ written
    /\ \E i, j, k \in DOMAIN output.rows :
          /\ i < j /\ j < k
          /\ output.rows[i].avg_gi # output.rows[j].avg_gi
          /\ output.rows[j].avg_gi = output.rows[k].avg_gi
          /\ output.rows[j].Player > output.rows[k].Player

\* C6 as stated: a player with one game in total has the variance and the
\* standard deviation of every metric written as NaN, not as a number.
C6_Original ==
    written =>
       \A i \in DOMAIN output.rows :
          GameCount(output.rows[i].Player) = 1 =>
             /\ IsNaN(output.rows[i].gi_var) /\ IsNaN(output.rows[i].gi_std)
             /\ IsNaN(output.rows[i].gi_raw_var) /\ IsNaN(output.rows[i].gi_raw_std)
             /\ IsNaN(output.rows[i].gpl_var) /\ IsNaN(output.rows[i].gpl_std)
             /\ IsNaN(output.rows[i].acpl_var) /\ IsNaN(output.rows[i].acpl_std)

\* C7: without the input file the run reports it and returns; it loads no
\* table, makes no directory, writes no file and raises nothing.
C7_MissingInput ==
    ~pathExists =>
       /\ pc \in {"start", "returned"}
       /\ pc = "returned" => reported
       /\ df = NoFrame
       /\ ~dirCreated
       /\ ~written
       /\ output = NoFrame

C7_Witness == ~pathExists /\ pc = "returned" /\ reported

BeforeOutput ==
    {"start", "sums", "games", "stats", "merge", "averages", "opponent_elo",
     "tpr", "elo", "select", "raised"}

\* the positions a run can be at when column c is missing: up to the first
\* line that reads c, or ended by the error
ReachableWithout(c) ==
    IF c \in {"WhiteElo", "BlackElo"}
    THEN {"start", "sums", "games", "stats", "merge", "averages",
          "opponent_elo", "raised"}
    ELSE IF c \in {"white_move_number", "black_move_number"}
    THEN {"start", "sums", "games", "raised"}
    ELSE {"start", "sums", "raised"}

\* C8: with a required column missing from the loaded table the run never
\* gets as far as the output directory or the file: it is at a line before
\* them or the error has ended it.
C8_SchemaViolation ==
    (pathExists /\ ~(RequiredColumns \subseteq csv.columns)) =>
       /\ pc \in BeforeOutput
       /\ \A c \in RequiredColumns \ csv.columns : pc \in ReachableWithout(c)
       /\ ~dirCreated
       /\ ~written
       /\ output = NoFrame

C8_Witness ==
    /\ pc = "raised"
    /\ "BlackElo" \notin csv.columns
    /\ player_stats.rows # <<>>
    /\ ~dirCreated /\ ~written

OpponentEloTotal(p) ==
    RAdd(ColSum(WhiteGames(p), "BlackElo"), ColSum(BlackGames(p), "WhiteElo"))

\* C9: avg_opponent_elo is the sum of BlackElo over the player's White games
\* plus the sum of WhiteElo over the player's Black games, divided by the
\* player's game count, for every player.
C9_AvgOpponentElo ==
    pc \in {"tpr", "elo", "select"} =>
       /\ {player_stats.rows[i].Player : i \in DOMAIN player_stats.rows}
             = InputPlayers
       /\ \A i \in DOMAIN player_stats.rows :
             LET r == player_stats.rows[i] IN
             IsRatio(r.avg_opponent_elo, OpponentEloTotal(r.Player),
                     GameCount(r.Player))

C9_Witness ==
    /\ pc = "tpr"
    /\ \E i, j \in DOMAIN player_stats.rows :
          /\ OneColourOnly(player_stats.rows[i].Player)
          /\ RGt(player_stats.rows[i].avg_opponent_elo, Zero)
          /\ BothColours(player_stats.rows[j].Player)

AtLeastOne(x) == Len(x) = 2 /\ x[2] = 1 /\ x[1] >= 1

\* C10: every row that reaches the divisions by total_game_count and the call
\* of optimize_w has a total_game_count of at least 1.
C10_NoZeroGameCount ==
    /\ pc \in {"averages", "opponent_elo", "tpr"} =>
          \A i \in DOMAIN player_stats.rows :
             AtLeastOne(player_stats.rows[i].total_game_count)
    /\ pc \in {"opponent_elo"} =>
          \A i \in DOMAIN total_games.rows :
             AtLeastOne(total_games.rows[i].total_game_count)
    /\ pc \in {"elo", "select"} =>
          \A i \in DOMAIN player_stats.rows :
             AtLeastOne(player_stats.rows[i].w_star.games)

C10_Witness ==
    /\ pc = "elo"
    /\ \E i \in DOMAIN player_stats.rows :
          /\ player_stats.rows[i].w_star.games = R(1)
          /\ player_stats.rows[i].w_star.points = Zero

====
